---------------------------- MODULE Spec2Model ----------------------------
(***************************************************************************)
(* The hedge monitoring engine of the gold hedge assistant, as a state     *)
(* machine.  The repository holds two revisions of the same Streamlit      *)
(* script, src/app.py and src/gold_hedge_trader.py; `variant` says which   *)
(* one is running.  One step of the machine is one run of main(): the      *)
(* script is re-executed from the top for every button click, every widget *)
(* edit and every st.rerun(), reading and writing st.session_state.        *)
(*                                                                         *)
(* Money is a Python float rounded with round(x, 2).  It is modelled as an *)
(* integer count of 1/10000 yuan, so that inputs with three decimals and   *)
(* spread / 2 are exact.  round(x, 2) rounds to the nearest cent; on a     *)
(* decimal tie (x.xx5) the double's binary expansion decides the side, so  *)
(* the side is left as a choice: the set `ups` holds the tie values that   *)
(* round up in the run at hand.                                            *)
(***************************************************************************)
EXTENDS Integers, Sequences, FiniteSets, TLC

VARIABLES
    variant,          \* "app" (src/app.py) or "trader" (src/gold_hedge_trader.py)
    strategy,         \* st.session_state["strategy"]: <<>> is None, <<s>> a GoldHedgeStrategy
    monitor_running,  \* st.session_state["monitor_running"]
    monitor_data,     \* st.session_state["monitor_data"]
    button_shown,     \* the monitor button the page shows: "none", "start" or "stop"
    rerun_pending,    \* st.rerun() was called by the last run
    clock,            \* number of script runs so far; stands for datetime.now()
    interactions,     \* history variable: number of user interactions (clicks, widget edits)
    appended,         \* history variable: every snapshot appended since the last initialization
    run,              \* history variable: what the last script run did
    profit_data,      \* the local profit_data of the last run: <<>> if it was not computed
    profit_table      \* the local profit_table of the last run: <<>> if it was not generated

vars == <<variant, strategy, monitor_running, monitor_data, button_shown,
          rerun_pending, clock, interactions, appended, run, profit_data, profit_table>>

---------------------------------------------------------------------------
\* Bounds of the model.

\* Script runs explored by Spec.
MaxRuns == 4

\* Script runs SpecHistory explores beyond the MaxHistory + 1 appends that fill the buffer.
ExtraRuns == 2

\* User interactions (clicks and widget edits) in a behaviour of SpecHistory.
MaxInteractions == 4

\* Script runs explored by SpecLive.
LiveRuns == 4

---------------------------------------------------------------------------
\* Money.

Cent == 10 * 10
Unit == 100 * Cent

\* The float i.cc (two decimals).
D2(i, cc) == i * Unit + cc * Cent

\* The float i.mmm (three decimals).
D3(i, mmm) == i * Unit + mmm * 10

IsTie(x) == x % Cent = 50

\* round(x, 2)
Round2(x, ups) ==
    LET lo == (x \div Cent) * Cent
        r  == x - lo
    IN  IF r < 50 THEN lo
        ELSE IF r > 50 THEN lo + Cent
        ELSE IF x \in ups THEN lo + Cent ELSE lo

\* spread / 2
Half(x) == x \div 2

---------------------------------------------------------------------------
\* GoldHedgeStrategy (identical in both revisions).

\* The constructor with the two deposits mixed up in the breakeven prices.
GoldHedgeStrategy_swapped_deposits(initial_price, spread, deposit_a, deposit_b, ups) ==
    LET lock_sell_price == Round2(initial_price - Half(spread), ups)
        lock_buy_price  == Round2(initial_price + Half(spread), ups)
    IN  [ initial_price   |-> Round2(initial_price, ups),
          spread          |-> Round2(spread, ups),
          deposit_a       |-> Round2(deposit_a, ups),
          deposit_b       |-> Round2(deposit_b, ups),
          lock_sell_price |-> lock_sell_price,
          lock_buy_price  |-> lock_buy_price,
          breakeven_up    |-> Round2(lock_buy_price + deposit_b, ups),
          breakeven_down  |-> Round2(lock_sell_price - deposit_a, ups) ]

GoldHedgeStrategy(initial_price, spread, deposit_a, deposit_b, ups) ==
    LET lock_sell_price == Round2(initial_price - Half(spread), ups)
        lock_buy_price  == Round2(initial_price + Half(spread), ups)
    IN  [ initial_price   |-> Round2(initial_price, ups),
          spread          |-> Round2(spread, ups),
          deposit_a       |-> Round2(deposit_a, ups),
          deposit_b       |-> Round2(deposit_b, ups),
          lock_sell_price |-> lock_sell_price,
          lock_buy_price  |-> lock_buy_price,
          breakeven_up    |-> Round2(lock_buy_price + deposit_a, ups),
          breakeven_down  |-> Round2(lock_sell_price - deposit_b, ups) ]

\* profit_down with its difference taken the other way round.
calculate_real_profit_sign_slip(self, price, now, ups) ==
    LET current_price == Round2(price, ups)
    IN  [ current_price   |-> current_price,
          price_change    |-> Round2(current_price - self.initial_price, ups),
          profit_up       |-> Round2((current_price - self.lock_buy_price) - self.deposit_a, ups),
          profit_down     |-> Round2((current_price - self.lock_sell_price) - self.deposit_b, ups),
          lock_sell_price |-> self.lock_sell_price,
          lock_buy_price  |-> self.lock_buy_price,
          breakeven_up    |-> self.breakeven_up,
          breakeven_down  |-> self.breakeven_down,
          timestamp       |-> now ]

calculate_real_profit(self, price, now, ups) ==
    LET current_price == Round2(price, ups)
    IN  [ current_price   |-> current_price,
          price_change    |-> Round2(current_price - self.initial_price, ups),
          profit_up       |-> Round2((current_price - self.lock_buy_price) - self.deposit_a, ups),
          profit_down     |-> Round2((self.lock_sell_price - current_price) - self.deposit_b, ups),
          lock_sell_price |-> self.lock_sell_price,
          lock_buy_price  |-> self.lock_buy_price,
          breakeven_up    |-> self.breakeven_up,
          breakeven_down  |-> self.breakeven_down,
          timestamp       |-> now ]

\* int(x): truncation toward zero, in whole yuan.
IntPart(x) == IF x >= 0 THEN x \div Unit ELSE 0 - ((0 - x) \div Unit)

\* len(range(start, stop, step)) for step > 0; range raises ValueError on step = 0,
\* and main() passes step = 20.
RangeLen(start, stop, step) ==
    IF stop > start THEN (stop - start + step - 1) \div step ELSE 0

\* One row of the ladder's DataFrame; its four columns carry these values.
LadderRow(profit) ==
    [ current_price |-> profit.current_price,
      price_change  |-> profit.price_change,
      profit_up     |-> profit.profit_up,
      profit_down   |-> profit.profit_down ]

\* generate_profit_table: range(int(start_price), int(end_price) + 1, step), each
\* price evaluated by calculate_real_profit.
generate_profit_table(self, price_range, step, now, ups) ==
    LET start_price == self.initial_price + price_range[1] * Unit
        end_price   == self.initial_price + price_range[2] * Unit
        first == IntPart(start_price)
        n == RangeLen(first, IntPart(end_price) + 1, step)
    IN  [ i \in 1..n |->
            LadderRow(calculate_real_profit(self, (first + (i - 1) * step) * Unit,
                                            now, ups)) ]

---------------------------------------------------------------------------
\* The price source. A provider outcome is what one HTTP exchange yields:
\*   kind   "network_error"  requests.get raises ConnectionError
\*          "timeout"        requests.get raises Timeout
\*          "malformed"      response.json() raises (the body is not JSON)
\*          "missing_field"  the JSON object lacks the price field
\*          "bad_value"      the price field holds no number
\*          "ok"             the price field holds the number `value`
\*   status the HTTP status code of the response
\*   value  app.py: XAU in US cents per ounce; gold_hedge_trader.py: f43 in 1/10000 yuan

\* The exception the body of the try block raises on an outcome, "none" if it raises none.
RaisedBy(out) ==
    CASE out.kind = "network_error" -> "ConnectionError"
      [] out.kind = "timeout"       -> "Timeout"
      [] out.kind = "malformed"     -> "JSONDecodeError"
      [] out.kind = "bad_value"     -> IF variant = "app" THEN "TypeError" ELSE "ValueError"
      [] OTHER                      -> "none"

\* Whether an `except <clause>` catches exception exc.
Catches(clause, exc) ==
    CASE clause = "Exception"        -> TRUE
      [] clause = "RequestException" -> exc \in {"ConnectionError", "Timeout"}
      [] OTHER                       -> FALSE

\* (gold_usd_oz / 31.1035) * 7.2, rounded to the cent: 7.2 / 31.1035 = 14400 / 62207.
UsdOzToCnyG(usd_cents) ==
    LET q == usd_cents \div 62207
        r == usd_cents % 62207
    IN  (q * 14400 + (r * 14400 + 31103) \div 62207) * Cent

FallbackApp == D2(602, 80)

GlobalGoldPrice(out, clause) ==
    LET exc == RaisedBy(out)
    IN  IF exc # "none"
        THEN IF Catches(clause, exc)
             THEN [raised |-> FALSE, success |-> FALSE, gold_cny_g |-> FallbackApp, warned |-> exc]
             ELSE [raised |-> TRUE, success |-> FALSE, gold_cny_g |-> 0, warned |-> "none"]
        ELSE IF out.kind = "ok"
             THEN [raised |-> FALSE, success |-> TRUE,
                   gold_cny_g |-> UsdOzToCnyG(out.value), warned |-> "none"]
             ELSE [raised |-> FALSE, success |-> FALSE, gold_cny_g |-> FallbackApp,
                   warned |-> "api_abnormal"]

\* A narrower handler, as `except requests.RequestException` would be.
get_global_gold_price_narrow(out) == GlobalGoldPrice(out, "RequestException")

get_global_gold_price(out) == GlobalGoldPrice(out, "Exception")

\* _eastmoney_gold_price: `none` is Python's None.
EastmoneyGoldPrice(out, ups, clause) ==
    LET exc == RaisedBy(out)
    IN  IF exc # "none"
        THEN IF Catches(clause, exc)
             THEN [raised |-> FALSE, none |-> TRUE, price |-> 0, warned |-> exc]
             ELSE [raised |-> TRUE, none |-> TRUE, price |-> 0, warned |-> "none"]
        ELSE IF out.kind = "ok"
             THEN [raised |-> FALSE, none |-> FALSE, price |-> Round2(out.value, ups),
                   warned |-> "none"]
             ELSE [raised |-> FALSE, none |-> TRUE, price |-> 0, warned |-> "none"]

eastmoney_gold_price(out, ups) == EastmoneyGoldPrice(out, ups, "Exception")

default_price == D2(602, 50)

\* gold_hedge_trader.py with `if price is not None:` in place of `if price:`.
get_realtime_gold_price_none_test(out, ups) ==
    IF variant = "app"
    THEN LET gold_data == get_global_gold_price(out)
         IN  [raised |-> gold_data.raised, price |-> gold_data.gold_cny_g,
              fallback |-> ~gold_data.success, warned |-> gold_data.warned]
    ELSE LET p == eastmoney_gold_price(out, ups)
         IN  IF p.raised
             THEN [raised |-> TRUE, price |-> 0, fallback |-> FALSE, warned |-> "none"]
             ELSE IF ~p.none
             THEN [raised |-> FALSE, price |-> p.price, fallback |-> FALSE, warned |-> p.warned]
             ELSE [raised |-> FALSE, price |-> default_price, fallback |-> TRUE,
                   warned |-> p.warned]

\* get_realtime_gold_price of either revision: the price the caller is given,
\* whether the static fallback was used, and whether the call raised.
get_realtime_gold_price(out, ups) ==
    IF variant = "app"
    THEN LET gold_data == get_global_gold_price(out)
         IN  [raised |-> gold_data.raised, price |-> gold_data.gold_cny_g,
              fallback |-> ~gold_data.success, warned |-> gold_data.warned]
    ELSE LET p == eastmoney_gold_price(out, ups)
         IN  IF p.raised
             THEN [raised |-> TRUE, price |-> 0, fallback |-> FALSE, warned |-> "none"]
             ELSE IF ~p.none /\ p.price # 0
             THEN [raised |-> FALSE, price |-> p.price, fallback |-> FALSE, warned |-> p.warned]
             ELSE [raised |-> FALSE, price |-> default_price, fallback |-> TRUE,
                   warned |-> p.warned]

---------------------------------------------------------------------------
\* main(): one script run.

\* Capacity of the history buffer.
MaxHistory == 100

\* The price main() of gold_hedge_trader.py substitutes when the fetch raises.
ExceptPrice == D2(600, 0)

\* The arguments main() passes to generate_profit_table.
DefaultRange == <<0 - 120, 120>>

DefaultStep == 20

NoCfg == [initial_price |-> 0, spread |-> 0, deposit_a |-> 0, deposit_b |-> 0]

NoOutcome == [kind |-> "none", status |-> 0, value |-> 0]

\* The record of a run that did nothing: the first page load.
NoRun == [op |-> "Load", click |-> "none", cfg |-> NoCfg, out |-> NoOutcome,
          fault |-> "none", stage |-> "no_strategy", fetch_raised |-> FALSE,
          fallback |-> FALSE, warned |-> "none", price |-> 0,
          pushed |-> FALSE, alerts |-> {}, reported |-> "none",
          price_range |-> DefaultRange, step |-> DefaultStep]

\* A button that answers a negative spread by resetting the strategy to None.
sidebar_initialize_reset_on_reject(click, cfg, ups) ==
    IF click = "init"
    THEN IF cfg.spread < 0
         THEN [strategy |-> <<>>, monitor_data |-> <<>>]
         ELSE [strategy     |-> <<GoldHedgeStrategy(cfg.initial_price, cfg.spread,
                                                    cfg.deposit_a, cfg.deposit_b, ups)>>,
               monitor_data |-> <<>>]
    ELSE [strategy |-> strategy, monitor_data |-> monitor_data]

\* The button without `st.session_state["monitor_data"] = []`.
sidebar_initialize_keep_history(click, cfg, ups) ==
    IF click = "init"
    THEN [strategy     |-> <<GoldHedgeStrategy(cfg.initial_price, cfg.spread,
                                               cfg.deposit_a, cfg.deposit_b, ups)>>,
          monitor_data |-> monitor_data]
    ELSE [strategy |-> strategy, monitor_data |-> monitor_data]

\* The sidebar's button: st.session_state after the `if st.button(...)` block.
sidebar_initialize(click, cfg, ups) ==
    IF click = "init"
    THEN [strategy     |-> <<GoldHedgeStrategy(cfg.initial_price, cfg.spread,
                                               cfg.deposit_a, cfg.deposit_b, ups)>>,
          monitor_data |-> <<>>]
    ELSE [strategy |-> strategy, monitor_data |-> monitor_data]

\* One toggle button in place of the two guarded ones.
monitor_buttons_toggle(running, click) ==
    IF click \in {"start", "stop"} THEN ~running ELSE running

\* The start / stop buttons: monitor_running after the block.  Only one of the two
\* buttons is created in a run, so a click on the other one is lost.
monitor_buttons(running, click) ==
    IF ~running THEN click = "start" ELSE click # "stop"

\* The button the block creates.
button_created(running) == IF ~running THEN "start" ELSE "stop"

\* The flag read into a local before the buttons ran.
monitoring_active_stale(before, after) == before

\* `if st.session_state["monitor_running"]:` reads the flag as the buttons left it.
monitoring_active(before, after) == after

\* append without the capacity check.
push_snapshot_no_evict(data, entry) == Append(data, entry)

\* pop() in place of pop(0): the newest entry is dropped.
push_snapshot_drop_newest(data, entry) ==
    LET a == Append(data, entry)
    IN  IF Len(a) > MaxHistory THEN SubSeq(a, 1, Len(a) - 1) ELSE a

\* append, then drop the oldest entry when the buffer exceeds its capacity.
push_snapshot(data, entry) ==
    LET a == Append(data, entry)
    IN  IF Len(a) > MaxHistory THEN Tail(a) ELSE a

\* Strict comparisons in place of >= and <=.
breach_alert_strict(real_price, s) ==
    IF real_price > s.breakeven_up THEN {"AlertUp"}
    ELSE IF real_price < s.breakeven_down THEN {"AlertDown"}
    ELSE {}

\* Two independent ifs in place of if / elif.
breach_alert_both(real_price, s) ==
    (IF real_price >= s.breakeven_up THEN {"AlertUp"} ELSE {})
    \cup (IF real_price <= s.breakeven_down THEN {"AlertDown"} ELSE {})

\* The if / elif that raises the alerts.
breach_alert(real_price, s) ==
    IF real_price >= s.breakeven_up THEN {"AlertUp"}
    ELSE IF real_price <= s.breakeven_down THEN {"AlertDown"}
    ELSE {}

\* The block without its st.rerun().
rerun_requested_never(fault) == FALSE

\* time.sleep(monitor_interval); st.rerun(): reached when no step of the block raised.
rerun_requested(fault) == fault = "none"

\* The steps of a run in which an unexpected exception (an Exception, not the
\* RerunException of st.rerun) is raised: "none" or the step that raises.
Faults == {"none", "evaluate", "append", "alert", "sleep"}

\* The decimal ties among the arguments of round(., 2) in a run.
TieArgs(cfg, out) ==
    LET ip  == cfg.initial_price
        lo  == ip - Half(cfg.spread)
        hi  == ip + Half(cfg.spread)
        sells == {Round2(lo, {}), Round2(lo, {lo})}
        buys  == {Round2(hi, {}), Round2(hi, {hi})}
        f43   == IF variant = "trader" THEN {out.value} ELSE {}
        args  == {ip, cfg.spread, cfg.deposit_a, cfg.deposit_b, lo, hi} \cup f43
                   \cup {b + cfg.deposit_a : b \in buys}
                   \cup {s - cfg.deposit_b : s \in sells}
    IN  {x \in args : IsTie(x)}

Run(op, click, cfg, out, fault, ups) ==
    LET now      == clock + 1
        side     == sidebar_initialize(click, cfg, ups)
        has      == side.strategy # <<>>
        s        == side.strategy[1]
        fetched  == get_realtime_gold_price(out, ups)
        \* app.py calls the fetch bare; gold_hedge_trader.py wraps it in try / except
        escapes  == fetched.raised /\ variant = "app"
        real_price  == IF fetched.raised THEN ExceptPrice ELSE fetched.price
        profit_data_ == calculate_real_profit(s, real_price, now, ups)
        ladder   == generate_profit_table(s, DefaultRange, DefaultStep, now, ups)
        running1 == monitor_buttons(monitor_running, click)
        active   == monitoring_active(monitor_running, running1)
        pushed   == push_snapshot(side.monitor_data, profit_data_)
        base     == [NoRun EXCEPT !.op = op, !.click = click, !.cfg = cfg, !.fault = fault]
        seen     == [base EXCEPT !.out = out, !.fetch_raised = fetched.raised,
                                 !.fallback = fetched.fallback, !.warned = fetched.warned,
                                 !.price = real_price]
    IN  /\ clock' = now
        /\ variant' = variant
        /\ strategy' = side.strategy
        /\ IF ~has
           THEN \* `if not strategy: return`
                /\ fault = "none"
                /\ monitor_data' = side.monitor_data
                /\ appended' = IF click = "init" THEN <<>> ELSE appended
                /\ UNCHANGED monitor_running
                /\ button_shown' = "none"
                /\ rerun_pending' = FALSE
                /\ run' = base
                /\ profit_data' = <<>>
                /\ profit_table' = <<>>
           ELSE IF escapes \/ fault = "evaluate"
           THEN \* an exception raised before the monitor block leaves main()
                /\ monitor_data' = side.monitor_data
                /\ appended' = IF click = "init" THEN <<>> ELSE appended
                /\ UNCHANGED monitor_running
                /\ button_shown' = "none"
                /\ rerun_pending' = FALSE
                /\ run' = [seen EXCEPT !.stage = "raised", !.reported = "uncaught"]
                /\ profit_data' = <<>>
                /\ profit_table' = <<>>
           ELSE IF ~active
           THEN /\ fault = "none"
                /\ monitor_data' = side.monitor_data
                /\ appended' = IF click = "init" THEN <<>> ELSE appended
                /\ monitor_running' = running1
                /\ button_shown' = button_created(monitor_running)
                /\ rerun_pending' = FALSE
                /\ run' = [seen EXCEPT !.stage = "idle"]
                /\ profit_data' = <<profit_data_>>
                /\ profit_table' = ladder
           ELSE \* the monitor block: try: append, alert, sleep, rerun / except Exception
                /\ monitor_data' = IF fault = "append" THEN side.monitor_data ELSE pushed
                /\ appended' = LET a == IF click = "init" THEN <<>> ELSE appended
                               IN  IF fault = "append" THEN a ELSE Append(a, profit_data_)
                /\ monitor_running' = (fault = "none")
                /\ button_shown' = button_created(monitor_running)
                /\ rerun_pending' = rerun_requested(fault)
                /\ run' = [seen EXCEPT !.stage = "tick",
                                       !.pushed = (fault # "append"),
                                       !.alerts = IF fault \in {"append", "alert"} THEN {}
                                                  ELSE breach_alert(real_price, s),
                                       !.reported = IF fault = "none" THEN "none"
                                                    ELSE "st.error"]
                /\ profit_data' = <<profit_data_>>
                \* st.rerun() leaves main() before the ladder; the handler does not
                /\ profit_table' = IF fault = "none" THEN <<>> ELSE ladder

---------------------------------------------------------------------------
\* The inputs of Spec.

Cfg(ip, sp, da, db) == [initial_price |-> ip, spread |-> sp, deposit_a |-> da, deposit_b |-> db]

\* What the operator types into the four number inputs (none has a min_value).
Configs ==
    { Cfg(D2(600, 0), D2(4, 0), D2(35, 0), D2(60, 0)),        \* the scenario of the spec
      Cfg(D2(600, 0), 0 - D2(4, 0), D2(35, 0), D2(60, 0)),    \* a negative spread
      Cfg(D2(600, 0), 0, 0, 0),                                \* thresholds coincide
      Cfg(D2(600, 0), 0, 0 - D2(5, 0), 0 - D2(5, 0)) }         \* thresholds cross

Failure(kind, status) == [kind |-> kind, status |-> status, value |-> 0]

Quote(status, value) == [kind |-> "ok", status |-> status, value |-> value]

\* The provider outcomes of Spec: one failure and quotes of 538.00, 600.00 and 637.00.
Outcomes ==
    { Failure("timeout", 200) }
    \cup ( IF variant = "app"
           THEN { Quote(200, 232412), Quote(200, 259196), Quote(200, 275180) }
           ELSE { Quote(200, D2(538, 0)), Quote(200, D2(600, 0)), Quote(200, D2(637, 0)) } )

---------------------------------------------------------------------------
\* The session after the first page load: no strategy, so main() returned early.

Init ==
    /\ variant \in {"app", "trader"}
    /\ strategy = <<>>
    /\ monitor_running = FALSE
    /\ monitor_data = <<>>
    /\ button_shown = "none"
    /\ rerun_pending = FALSE
    /\ clock = 0
    /\ interactions = 0
    /\ appended = <<>>
    /\ run = NoRun
    /\ profit_data = <<>>
    /\ profit_table = <<>>

\* The operator clicks "initialize strategy".
Initialize ==
    /\ clock < MaxRuns
    /\ \E cfg \in Configs, out \in Outcomes, fault \in Faults :
         \E ups \in SUBSET TieArgs(cfg, out) :
            /\ Run("Initialize", "init", cfg, out, fault, ups)
            /\ UNCHANGED interactions

\* The operator clicks "start monitoring", which the page shows.
Start ==
    /\ clock < MaxRuns
    /\ button_shown = "start"
    /\ \E out \in Outcomes, fault \in Faults :
         \E ups \in SUBSET TieArgs(NoCfg, out) :
            /\ Run("Start", "start", NoCfg, out, fault, ups)
            /\ UNCHANGED interactions

\* The operator clicks "stop monitoring", which the page shows.
Stop ==
    /\ clock < MaxRuns
    /\ button_shown = "stop"
    /\ \E out \in Outcomes, fault \in Faults :
         \E ups \in SUBSET TieArgs(NoCfg, out) :
            /\ Run("Stop", "stop", NoCfg, out, fault, ups)
            /\ UNCHANGED interactions

\* The run st.rerun() asked for, after time.sleep(monitor_interval).
Rerun ==
    /\ clock < MaxRuns
    /\ rerun_pending
    /\ \E out \in Outcomes, fault \in Faults :
         \E ups \in SUBSET TieArgs(NoCfg, out) :
            /\ Run("Rerun", "none", NoCfg, out, fault, ups)
            /\ UNCHANGED interactions

\* The operator edits a widget or reloads the page: a run with no button clicked.
Refresh ==
    /\ clock < MaxRuns
    /\ ~rerun_pending
    /\ \E out \in Outcomes, fault \in Faults :
         \E ups \in SUBSET TieArgs(NoCfg, out) :
            /\ Run("Refresh", "none", NoCfg, out, fault, ups)
            /\ UNCHANGED interactions

Next == Initialize \/ Start \/ Stop \/ Rerun \/ Refresh

Spec == Init /\ [][Next]_vars

---------------------------------------------------------------------------
\* SpecHistory: long monitoring sessions, to fill the history buffer.  The
\* provider follows a fixed script, nothing raises, and the operator interacts
\* at most MaxInteractions times, at any moments.

HistoryConfig == Cfg(D2(600, 0), D2(4, 0), D2(35, 0), D2(60, 0))

Feed ==
    IF variant = "app"
    THEN << Quote(200, 259196), Quote(200, 275180), Failure("timeout", 200), Quote(200, 232412) >>
    ELSE << Quote(200, D2(600, 0)), Quote(200, D2(637, 0)), Failure("timeout", 200),
            Quote(200, D2(538, 0)) >>

\* The provider's outcome in run number t.
FeedAt(t) == Feed[(t % Len(Feed)) + 1]

HistoryRuns == MaxHistory + 2 + ExtraRuns

HInitialize ==
    /\ clock < HistoryRuns
    /\ interactions < MaxInteractions
    /\ Run("Initialize", "init", HistoryConfig, FeedAt(clock + 1), "none", {})
    /\ interactions' = interactions + 1

HStart ==
    /\ clock < HistoryRuns
    /\ interactions < MaxInteractions
    /\ button_shown = "start"
    /\ Run("Start", "start", NoCfg, FeedAt(clock + 1), "none", {})
    /\ interactions' = interactions + 1

HStop ==
    /\ clock < HistoryRuns
    /\ interactions < MaxInteractions
    /\ button_shown = "stop"
    /\ Run("Stop", "stop", NoCfg, FeedAt(clock + 1), "none", {})
    /\ interactions' = interactions + 1

HRerun ==
    /\ clock < HistoryRuns
    /\ rerun_pending
    /\ Run("Rerun", "none", NoCfg, FeedAt(clock + 1), "none", {})
    /\ UNCHANGED interactions

HRefresh ==
    /\ clock < HistoryRuns
    /\ interactions < MaxInteractions
    /\ ~rerun_pending
    /\ Run("Refresh", "none", NoCfg, FeedAt(clock + 1), "none", {})
    /\ interactions' = interactions + 1

NextHistory == HInitialize \/ HStart \/ HStop \/ HRerun \/ HRefresh

SpecHistory == Init /\ [][NextHistory]_vars

---------------------------------------------------------------------------
\* SpecLive: the polling loop under the script runner's scheduling.  The operator
\* may click and edit at any moment or not at all, any step of a run may raise,
\* and the provider fails or quotes 600.00.

LiveOutcomes ==
    { Failure("timeout", 200),
      IF variant = "app" THEN Quote(200, 259196) ELSE Quote(200, D2(600, 0)) }

\* One script run of SpecLive.
LiveRun(op, click, cfg) ==
    /\ clock < LiveRuns
    /\ \E out \in LiveOutcomes, fault \in Faults : Run(op, click, cfg, out, fault, {})
    /\ UNCHANGED interactions

LInitialize == LiveRun("Initialize", "init", HistoryConfig)

LStart == button_shown = "start" /\ LiveRun("Start", "start", NoCfg)

LStop == button_shown = "stop" /\ LiveRun("Stop", "stop", NoCfg)

LRerun == rerun_pending /\ LiveRun("Rerun", "none", NoCfg)

LRefresh == ~rerun_pending /\ LiveRun("Refresh", "none", NoCfg)

NextLive == LInitialize \/ LStart \/ LStop \/ LRerun \/ LRefresh

\* The script runner carries out every rerun that st.rerun() asked for: the run
\* begins unless an interaction of the operator starts one in its place.
SpecLive == Init /\ [][NextLive]_vars /\ WF_vars(LRerun)

---------------------------------------------------------------------------
\* SpecFetch: the price fetch alone, on every provider outcome.

FetchValues ==
    IF variant = "app"
    THEN {0, 1, 232412, 259196, 275180, 276476}
    ELSE {0, 0 - D2(1, 0), D2(0, 1), D2(538, 0), D2(600, 0), D3(600, 4), D3(600, 5),
          D3(600, 6), D2(637, 0), D3(0, 4), 0 - D3(0, 4), D3(0, 5)}

FetchOutcomes ==
    { Failure(k, st) : k \in {"network_error", "timeout"}, st \in {0} }
    \cup { Failure(k, st) : k \in {"malformed", "missing_field", "bad_value"},
                            st \in {200, 404, 500} }
    \cup { Quote(st, v) : st \in {200, 404, 500}, v \in FetchValues }

FetchInit ==
    /\ variant \in {"app", "trader"}
    /\ strategy = <<>>
    /\ monitor_running = FALSE
    /\ monitor_data = <<>>
    /\ button_shown = "none"
    /\ rerun_pending = FALSE
    /\ clock = 0
    /\ interactions = 0
    /\ appended = <<>>
    /\ \E out \in FetchOutcomes : run = [NoRun EXCEPT !.op = "Input", !.out = out]
    /\ profit_data = <<>>
    /\ profit_table = <<>>

\* real_price = get_realtime_gold_price()
Fetch ==
    /\ run.op = "Input"
    /\ \E ups \in SUBSET TieArgs(NoCfg, run.out) :
         LET fetched == get_realtime_gold_price(run.out, ups)
         IN  run' = [run EXCEPT !.op = "Fetch", !.fetch_raised = fetched.raised,
                                !.fallback = fetched.fallback, !.warned = fetched.warned,
                                !.price = fetched.price]
    /\ UNCHANGED <<variant, strategy, monitor_running, monitor_data, button_shown,
                   rerun_pending, clock, interactions, appended, profit_data, profit_table>>

NextFetch == Fetch

SpecFetch == FetchInit /\ [][NextFetch]_vars

---------------------------------------------------------------------------
\* SpecCalc: the arithmetic of GoldHedgeStrategy alone.  A configuration is
\* drawn, the constructor runs on it, and then either calculate_real_profit is
\* called on a price or generate_profit_table on a range and a step.

\* Values with two and with three decimals, spreads of one cent and of an odd
\* number of cents, and values of either sign: the number inputs restrict nothing.
CalcConfigs ==
    { Cfg(ip, sp, da, db) :
        ip \in {D2(600, 0), D2(602, 80), D3(600, 5)},
        sp \in {0, D2(0, 1), D2(3, 1), D2(4, 0), 0 - D2(4, 0), D3(0, 4)},
        da \in {D2(35, 0), D3(35, 4), D3(35, 5), 0 - D2(5, 0)},
        db \in {D2(60, 0), D3(60, 5)} }

\* The prices a strategy is evaluated at: those of the spec's scenario, two with
\* three decimals, and the strategy's own breakeven prices.
CalcPrices(self) ==
    {D2(640, 0), D2(530, 0), D2(600, 0), D3(600, 5), D3(637, 4),
     self.breakeven_up, self.breakeven_down}

\* The ranges and steps of a ladder: main()'s own pair, ranges whose width is
\* and is not a multiple of the step, and an empty range.
CalcRanges == {DefaultRange, <<0 - 120, 110>>, <<0 - 50, 50>>, <<0 - 30, 45>>, <<0, 0>>}

CalcSteps == {DefaultStep, 25, 30}

CalcInit ==
    /\ variant \in {"app", "trader"}
    /\ strategy = <<>>
    /\ monitor_running = FALSE
    /\ monitor_data = <<>>
    /\ button_shown = "none"
    /\ rerun_pending = FALSE
    /\ clock = 0
    /\ interactions = 0
    /\ appended = <<>>
    /\ \E cfg \in CalcConfigs : run = [NoRun EXCEPT !.op = "Config", !.cfg = cfg]
    /\ profit_data = <<>>
    /\ profit_table = <<>>

\* strategy = GoldHedgeStrategy(initial_price, spread, deposit_a, deposit_b)
Construct ==
    /\ run.op = "Config"
    /\ \E ups \in SUBSET TieArgs(run.cfg, NoOutcome) :
         strategy' = <<GoldHedgeStrategy(run.cfg.initial_price, run.cfg.spread,
                                         run.cfg.deposit_a, run.cfg.deposit_b, ups)>>
    /\ run' = [run EXCEPT !.op = "Construct"]
    /\ UNCHANGED <<variant, monitor_running, monitor_data, button_shown, rerun_pending,
                   clock, interactions, appended, profit_data, profit_table>>

\* profit_data = strategy.calculate_real_profit(price)
Evaluate ==
    /\ run.op = "Construct"
    /\ \E price \in CalcPrices(strategy[1]) :
         \E ups \in SUBSET {x \in {price} : IsTie(x)} :
            /\ profit_data' = <<calculate_real_profit(strategy[1], price, clock, ups)>>
            /\ run' = [run EXCEPT !.op = "Evaluate", !.price = price]
    /\ UNCHANGED <<variant, strategy, monitor_running, monitor_data, button_shown,
                   rerun_pending, clock, interactions, appended, profit_table>>

\* profit_table = strategy.generate_profit_table(price_range, step)
Ladder ==
    /\ run.op = "Construct"
    /\ \E price_range \in CalcRanges, step \in CalcSteps :
         /\ profit_table' = generate_profit_table(strategy[1], price_range, step, clock, {})
         /\ run' = [run EXCEPT !.op = "Ladder", !.price_range = price_range, !.step = step]
    /\ UNCHANGED <<variant, strategy, monitor_running, monitor_data, button_shown,
                   rerun_pending, clock, interactions, appended, profit_data>>

NextCalc == Construct \/ Evaluate \/ Ladder

SpecCalc == CalcInit /\ [][NextCalc]_vars

---------------------------------------------------------------------------
\* Properties.

Min(a, b) == IF a < b THEN a ELSE b

\* C1: whenever a script run has completed, the history buffer holds at most
\* 100 snapshots.
C1_HistoryBounded == Len(monitor_data) <= 100

\* The buffer is full and an entry has been evicted.
C1_Witness == Len(monitor_data) = 100 /\ Len(appended) > 100

\* C2: after n snapshots have been appended since the last initialization, the
\* buffer holds exactly the last min(n, 100) of them, in the order of appending.
C2_FifoEviction ==
    LET n == Len(appended)
        k == Min(n, 100)
    IN  /\ Len(monitor_data) = k
        /\ \A i \in 1..k : monitor_data[i] = appended[n - k + i]

\* The 101st append has happened: the 1st snapshot is gone, the buffer starts at the 2nd.
C2_Witness ==
    /\ Len(appended) = 101
    /\ monitor_data[1] = appended[2]
    /\ monitor_data[100] = appended[101]
    /\ \A i \in 1..100 : monitor_data[i] # appended[1]

\* C3: a tick that reaches the alert step emits AlertUp alone when
\* price >= breakeven_up, otherwise AlertDown alone when price <= breakeven_down,
\* otherwise nothing; no run emits both alerts, and no run that is not a tick emits any.
C3_AlertDecision ==
    /\ Cardinality(run.alerts) <= 1
    /\ run.stage # "tick" => run.alerts = {}
    /\ (run.stage = "tick" /\ run.fault \notin {"append", "alert"}) =>
          LET up   == run.price >= strategy[1].breakeven_up
              down == run.price <= strategy[1].breakeven_down
          IN  /\ up => run.alerts = {"AlertUp"}
              /\ (~up /\ down) => run.alerts = {"AlertDown"}
              /\ (~up /\ ~down) => run.alerts = {}

\* A tick in which both conditions hold and AlertUp is the alert emitted.
C3_Witness ==
    /\ run.stage = "tick"
    /\ run.price >= strategy[1].breakeven_up
    /\ run.price <= strategy[1].breakeven_down
    /\ run.alerts = {"AlertUp"}

\* C4 as stated: monitor_running changes only by a start click while Stopped or a
\* stop click while Running, and every tick leaves the state Running.
C4_OnlyStartStop ==
    [][ /\ (monitor_running' # monitor_running) =>
             \/ (run'.click = "start" /\ ~monitor_running /\ monitor_running')
             \/ (run'.click = "stop" /\ monitor_running /\ ~monitor_running')
        /\ (run'.stage = "tick") => monitor_running' ]_vars

\* C4 as amended: monitor_running changes only by a start click while Stopped, a
\* stop click while Running, or a tick whose monitor block raises, which the
\* handler turns into Stopped; a tick that completes leaves the state Running,
\* and a run that is not a tick ends Running only if it began Running.
C4_StartStopOrFailedTick ==
    [][ /\ (monitor_running' # monitor_running) =>
             \/ (run'.click = "start" /\ ~monitor_running /\ monitor_running')
             \/ (run'.click = "stop" /\ monitor_running /\ ~monitor_running')
             \/ (run'.stage = "tick" /\ run'.fault # "none" /\ ~monitor_running')
        /\ (run'.stage = "tick" /\ run'.fault = "none") => monitor_running'
        /\ (run'.stage = "tick" /\ run'.fault # "none") => ~monitor_running'
        /\ (run'.click = "start" /\ monitor_running /\ run'.fault = "none") => monitor_running'
        /\ (run'.click = "stop" /\ ~monitor_running) => ~monitor_running' ]_vars

\* A start click has been lost on a Running monitor, which is still Running.
C4_Witness ==
    /\ run.click = "start"
    /\ run.stage = "tick"
    /\ clock >= 3
    /\ button_shown = "stop"
    /\ monitor_running

\* C5: a tick run by the polling loop while Running in which a step (price
\* fetch, profit evaluation, history append, alert evaluation) raises ends with
\* the error reported by the handler and the state Stopped.
C5_TickErrorStops ==
    [][ (monitor_running /\ run'.op = "Rerun"
            /\ (run'.fault # "none" \/ run'.fetch_raised)) =>
            (run'.reported = "st.error" /\ ~monitor_running') ]_vars

\* C6: a run that begins Stopped and is not a start click, and the run that
\* processes a stop click, append no snapshot and emit no alert; they leave the
\* history as it was, or empty when the run is an initialization.
C6_NoTickAfterStop ==
    [][ ((~monitor_running /\ run'.click # "start") \/ run'.click = "stop") =>
            /\ ~run'.pushed
            /\ run'.alerts = {}
            /\ run'.stage # "tick"
            /\ \/ monitor_data' = monitor_data
               \/ (run'.click = "init" /\ monitor_data' = <<>>) ]_vars

\* A stop click has been processed on a monitor that had ticked.
C6_Witness ==
    /\ run.click = "stop"
    /\ run.stage = "idle"
    /\ ~monitor_running
    /\ Len(monitor_data) > 0

\* C7: right after an initialization the strategy is the one constructed from
\* the entered configuration, as a whole, and the buffer holds no snapshot taken
\* before this run: at most the snapshot of this run, evaluated on the new strategy.
C7_InitializeReplaces ==
    run.click = "init" =>
        /\ \E ups \in SUBSET TieArgs(run.cfg, NoOutcome) :
             strategy = <<GoldHedgeStrategy(run.cfg.initial_price, run.cfg.spread,
                                            run.cfg.deposit_a, run.cfg.deposit_b, ups)>>
        /\ Len(monitor_data) <= 1
        /\ Len(monitor_data) = 1 <=> run.pushed
        /\ \A i \in 1..Len(monitor_data) :
             /\ monitor_data[i].timestamp = clock
             /\ monitor_data[i].lock_sell_price = strategy[1].lock_sell_price
             /\ monitor_data[i].lock_buy_price = strategy[1].lock_buy_price
             /\ monitor_data[i].breakeven_up = strategy[1].breakeven_up
             /\ monitor_data[i].breakeven_down = strategy[1].breakeven_down

\* A strategy has been initialized over a Running monitor, whose history was not empty.
C7_Witness ==
    /\ run.click = "init"
    /\ run.stage = "tick"
    /\ clock >= 3
    /\ Len(monitor_data) = 1

\* C8: the fetch never raises, and on a provider failure (network error,
\* timeout, malformed payload, missing field, unusable value) it returns the
\* static fallback: 602.8 in app.py, 602.5 in gold_hedge_trader.py.
C8_FetchNeverRaises ==
    run.op = "Fetch" =>
        /\ ~run.fetch_raised
        /\ run.out.kind # "ok" =>
              /\ run.fallback
              /\ variant = "app" => run.price = 6028000
              /\ variant = "trader" => run.price = 6025000

\* The fetch has returned the fallback of app.py on a payload that is not JSON.
C8_Witness ==
    /\ run.op = "Fetch"
    /\ variant = "app"
    /\ run.out.kind = "malformed"
    /\ run.price = 6028000

\* C9: an initialization with a negative spread is rejected as a ConfigError and
\* leaves the installed strategy and its history as they were; every installed
\* strategy has spread >= 0.
C9_NegativeSpreadRejected ==
    /\ [](strategy # <<>> => strategy[1].spread >= 0)
    /\ [][ (run'.click = "init" /\ run'.cfg.spread < 0) =>
               /\ strategy' = strategy
               /\ monitor_data' = monitor_data
               /\ run'.reported = "ConfigError" ]_vars

\* C10: an installed strategy with deposit_a >= 0 and deposit_b >= 0 has
\* breakeven_down <= lock_sell_price <= lock_buy_price <= breakeven_up.
C10_ThresholdOrder ==
    (strategy # <<>> /\ strategy[1].deposit_a >= 0 /\ strategy[1].deposit_b >= 0) =>
        /\ strategy[1].breakeven_down <= strategy[1].lock_sell_price
        /\ strategy[1].lock_sell_price <= strategy[1].lock_buy_price
        /\ strategy[1].lock_buy_price <= strategy[1].breakeven_up

\* C11: a constructed strategy has lock_sell_price < lock_buy_price whenever its
\* spread, as rounded at construction, is > 0 (0.01 included), and
\* lock_sell_price = lock_buy_price whenever it is 0.
C11_LockOrder ==
    strategy # <<>> =>
        /\ strategy[1].spread > 0 => strategy[1].lock_sell_price < strategy[1].lock_buy_price
        /\ strategy[1].spread = 0 => strategy[1].lock_sell_price = strategy[1].lock_buy_price

\* Whether every value of a configuration has at most two decimals.
TwoDecimals(cfg) ==
    /\ cfg.initial_price % Cent = 0
    /\ cfg.spread % Cent = 0
    /\ cfg.deposit_a % Cent = 0
    /\ cfg.deposit_b % Cent = 0

Abs(x) == IF x < 0 THEN 0 - x ELSE x

Scenario == Cfg(D2(600, 0), D2(4, 0), D2(35, 0), D2(60, 0))

\* C12 as stated: for a configuration with 2-decimal values and every price,
\* lock_sell_price = initial_price - spread/2, lock_buy_price = initial_price + spread/2,
\* breakeven_up = lock_buy_price + deposit_a, breakeven_down = lock_sell_price - deposit_b,
\* price_change = price - initial_price, profit_up = (price - lock_buy_price) - deposit_a
\* and profit_down = (lock_sell_price - price) - deposit_b.
C12_ExactFormulas ==
    (strategy # <<>> /\ TwoDecimals(run.cfg)) =>
        LET c == run.cfg
            s == strategy[1]
        IN  /\ s.lock_sell_price = c.initial_price - Half(c.spread)
            /\ s.lock_buy_price = c.initial_price + Half(c.spread)
            /\ s.breakeven_up = s.lock_buy_price + c.deposit_a
            /\ s.breakeven_down = s.lock_sell_price - c.deposit_b
            /\ run.op = "Evaluate" =>
                  /\ profit_data[1].price_change = run.price - c.initial_price
                  /\ profit_data[1].profit_up = (run.price - s.lock_buy_price) - c.deposit_a
                  /\ profit_data[1].profit_down = (s.lock_sell_price - run.price) - c.deposit_b

\* C12 as amended: for a configuration with 2-decimal values, the lock prices are
\* initial_price -/+ spread/2 rounded to the cent (exact when spread is an even
\* number of cents, within half a cent otherwise), the breakeven prices are
\* lock_buy_price + deposit_a and lock_sell_price - deposit_b, and an evaluation
\* rounds the price to the cent and applies the three formulas to the rounded
\* price; the scenario (600, 4, 35, 60) gives 598, 602, 637, 538, profit_up = 3 at
\* 640, profit_down = 8 at 530, and profit_up = -37, profit_down = -62 at 600.
C12_RoundedFormulas ==
    (strategy # <<>> /\ TwoDecimals(run.cfg)) =>
        LET c == run.cfg
            s == strategy[1]
        IN  /\ s.lock_sell_price % Cent = 0
            /\ s.lock_buy_price % Cent = 0
            /\ Abs(s.lock_sell_price - (c.initial_price - Half(c.spread))) * 2 <= Cent
            /\ Abs(s.lock_buy_price - (c.initial_price + Half(c.spread))) * 2 <= Cent
            /\ c.spread % (2 * Cent) = 0 =>
                  /\ s.lock_sell_price = c.initial_price - Half(c.spread)
                  /\ s.lock_buy_price = c.initial_price + Half(c.spread)
            /\ s.breakeven_up = s.lock_buy_price + c.deposit_a
            /\ s.breakeven_down = s.lock_sell_price - c.deposit_b
            /\ c = Scenario =>
                  /\ s.lock_sell_price = 5980000 /\ s.lock_buy_price = 6020000
                  /\ s.breakeven_up = 6370000 /\ s.breakeven_down = 5380000
            /\ run.op = "Evaluate" =>
                  LET d == profit_data[1]
                      p == d.current_price
                  IN  /\ p % Cent = 0
                      /\ Abs(p - run.price) * 2 <= Cent
                      /\ d.price_change = p - c.initial_price
                      /\ d.profit_up = (p - s.lock_buy_price) - c.deposit_a
                      /\ d.profit_down = (s.lock_sell_price - p) - c.deposit_b
                      /\ (c = Scenario /\ run.price = 6400000) => d.profit_up = 30000
                      /\ (c = Scenario /\ run.price = 5300000) => d.profit_down = 80000
                      /\ (c = Scenario /\ run.price = 6000000) =>
                            (d.profit_up = 0 - 370000 /\ d.profit_down = 0 - 620000)

\* A configuration with 2-decimal values and a spread of 3.01 has been evaluated
\* at 600.005: the lock price and the price were both rounded.
C12_Witness ==
    /\ run.op = "Evaluate"
    /\ TwoDecimals(run.cfg)
    /\ run.cfg.spread = 30100
    /\ run.price = 6000050
    /\ strategy[1].lock_sell_price # run.cfg.initial_price - Half(run.cfg.spread)
    /\ profit_data[1].current_price # run.price

\* C13: a strategy evaluated at its own breakeven_up has profit_up = 0 to within
\* one cent, |profit_up| <= 0.01, for every configuration, those with more than
\* two decimals included.
C13_BreakevenConsistency ==
    (run.op = "Evaluate" /\ run.price = strategy[1].breakeven_up) =>
        /\ profit_data[1].current_price = strategy[1].breakeven_up
        /\ Abs(profit_data[1].profit_up) <= Cent

\* A strategy with deposit_a = 35.005 has been evaluated at its breakeven_up, and
\* the two roundings of the deposit left profit_up one cent off zero.
C13_Witness ==
    /\ run.op = "Evaluate"
    /\ run.cfg.deposit_a = 350050
    /\ run.price = strategy[1].breakeven_up
    /\ profit_data[1].profit_up = Cent

\* C14: the ladder of the default range (-120, +120) and step 20 has 13 rows, in
\* increasing order of current_price; row i has current_price = initial_price +
\* offset and price_change = offset, for the offsets -120, -100, ..., +120, also
\* when initial_price is not a whole number.
C14_DefaultLadder ==
    (run.op = "Ladder" /\ run.price_range = <<0 - 120, 120>> /\ run.step = 20) =>
        /\ Len(profit_table) = 13
        /\ \A i \in 1..Len(profit_table) :
             LET offset == ((0 - 120) + 20 * (i - 1)) * Unit
             IN  /\ profit_table[i].current_price = strategy[1].initial_price + offset
                 /\ profit_table[i].price_change = offset
        /\ \A i \in 1..(Len(profit_table) - 1) :
             profit_table[i].current_price < profit_table[i + 1].current_price

\* C15: the ladder of a range low <= high starts at initial_price + low and steps
\* by step; its last row is initial_price + high exactly when high - low is a
\* multiple of step, and no row exceeds initial_price + high.
C15_LadderEndpoint ==
    (run.op = "Ladder" /\ run.price_range[1] <= run.price_range[2]) =>
        LET n    == Len(profit_table)
            low  == strategy[1].initial_price + run.price_range[1] * Unit
            high == strategy[1].initial_price + run.price_range[2] * Unit
        IN  /\ n >= 1
            /\ profit_table[1].current_price = low
            /\ \A i \in 1..(n - 1) :
                 profit_table[i + 1].current_price
                     = profit_table[i].current_price + run.step * Unit
            /\ \A i \in 1..n : profit_table[i].current_price <= high
            /\ (profit_table[n].current_price = high)
                  <=> ((run.price_range[2] - run.price_range[1]) % run.step = 0)

\* C16: a fetch in which the provider fails (exception, timeout, malformed
\* payload, payload without the price field) has emitted a warning that names
\* the provider and the cause before it returns the fallback.
C16_FailureLogged ==
    (run.op = "Fetch" /\ run.out.kind # "ok") => (run.fallback /\ run.warned # "none")

\* C17: a response with a non-2xx HTTP status is a provider failure: its payload
\* is not used as the price and the fetch returns the static fallback.
C17_Non2xxIsFailure ==
    (run.op = "Fetch" /\ run.out.status \notin 200..299) =>
        /\ run.fallback
        /\ variant = "app" => run.price = FallbackApp
        /\ variant = "trader" => run.price = default_price

\* C18: while the state is Running with a rerun requested by a completed tick,
\* the next run begins eventually (up to the horizon LiveRuns of the model), and
\* unless that run carries a stop click or raises, it is a tick again that
\* leaves the state Running with the next rerun requested.
C18_PollingLoopLive ==
    /\ [][ (run.stage = "tick" /\ run.fault = "none" /\ clock' # clock) =>
              \/ run'.click = "stop"
              \/ run'.fault # "none"
              \/ (run'.stage = "tick" /\ monitor_running' /\ rerun_pending') ]_vars
    /\ \A k \in 0..(LiveRuns - 1) :
          (clock = k /\ run.stage = "tick" /\ run.fault = "none") ~> (clock > k)

\* Two ticks in a row: the second is the run that the first one's st.rerun() asked for.
C18_Witness ==
    /\ run.op = "Rerun"
    /\ run.stage = "tick"
    /\ run.fault = "none"
    /\ monitor_running
    /\ rerun_pending
    /\ Len(appended) >= 2

\* C19: whenever the state is Running a strategy is installed; the monitor
\* buttons are shown, and a tick runs, only with a strategy installed, and once
\* installed a strategy is only ever replaced by another one.
C19_RunningHasStrategy ==
    /\ [](monitor_running => strategy # <<>>)
    /\ [](button_shown # "none" => strategy # <<>>)
    /\ [](run.stage = "tick" => strategy # <<>>)
    /\ [][strategy # <<>> => strategy' # <<>>]_vars

\* The monitor is Running right after a re-initialization with another configuration.
C19_Witness ==
    /\ monitor_running
    /\ run.click = "init"
    /\ run.cfg.spread < 0
    /\ run.stage = "tick"
    /\ strategy # <<>>

\* C20: every snapshot in the history buffer carries the lock and breakeven
\* prices of the strategy that is installed now, also after a re-initialization
\* while the monitor is Running.
C20_HistoryMatchesStrategy ==
    \A i \in 1..Len(monitor_data) :
        /\ strategy # <<>>
        /\ monitor_data[i].lock_sell_price = strategy[1].lock_sell_price
        /\ monitor_data[i].lock_buy_price = strategy[1].lock_buy_price
        /\ monitor_data[i].breakeven_up = strategy[1].breakeven_up
        /\ monitor_data[i].breakeven_down = strategy[1].breakeven_down

\* The fourth run re-initializes a monitor that was Running and had ticked: the
\* buffer holds the one snapshot of this run.
C20_Witness ==
    /\ clock = 4
    /\ run.click = "init"
    /\ run.stage = "tick"
    /\ Len(appended) = 1
    /\ monitor_data = <<profit_data[1]>>
    /\ monitor_data[1].breakeven_up = strategy[1].breakeven_up

\* C21: in a tick that appends its snapshot and reaches the alert step, with
\* configurations of 2-decimal values, the snapshot appended is the one computed
\* in this run, its current_price is the fetched price the alert is decided on,
\* AlertUp is emitted exactly when its profit_up >= 0, and AlertDown only when
\* its profit_down >= 0.
C21_AlertMatchesSnapshot ==
    (/\ \A c \in Configs : TwoDecimals(c)
     /\ run.stage = "tick"
     /\ run.pushed
     /\ run.fault \notin {"append", "alert"}) =>
        LET d == monitor_data[Len(monitor_data)]
        IN  /\ d = profit_data[1]
            /\ d = appended[Len(appended)]
            /\ d.timestamp = clock
            /\ d.current_price = run.price
            /\ ("AlertUp" \in run.alerts) <=> (d.profit_up >= 0)
            /\ ("AlertDown" \in run.alerts) => (d.profit_down >= 0)

\* A tick at a price equal to breakeven_up: the snapshot has profit_up = 0 and
\* AlertUp is emitted.
C21_Witness ==
    /\ run.stage = "tick"
    /\ run.pushed
    /\ run.price = strategy[1].breakeven_up
    /\ profit_data[1].profit_up = 0
    /\ profit_data[1].profit_down < 0
    /\ run.alerts = {"AlertUp"}

\* C22 as stated: in gold_hedge_trader.py the fetch never returns 0; it returns
\* the fallback 602.5 whenever the provider yields no price or a price equal to
\* 0, and every other parsed price, a negative one included, is returned rounded
\* to 2 decimals.
C22_ZeroPriceIsFailure ==
    (run.op = "Fetch" /\ variant = "trader") =>
        LET v == run.out.value
        IN  /\ run.price # 0
            /\ (run.out.kind # "ok" \/ v = 0) => (run.fallback /\ run.price = 6025000)
            /\ (run.out.kind = "ok" /\ v # 0) =>
                  /\ ~run.fallback
                  /\ run.price % Cent = 0
                  /\ Abs(run.price - v) * 2 <= Cent

\* C22 as amended: in gold_hedge_trader.py the fetch never returns 0; it returns
\* the fallback 602.5 whenever the provider yields no price or a price that
\* rounds to 0.00 (any price nearer to 0 than half a cent, 0 included), and every
\* other parsed price, a negative one included, is returned rounded to 2 decimals.
C22_RoundedZeroIsFailure ==
    (run.op = "Fetch" /\ variant = "trader") =>
        LET v == run.out.value
        IN  /\ run.price # 0
            /\ run.fallback => run.price = 6025000
            /\ (run.out.kind # "ok" \/ Abs(v) * 2 < Cent) => run.fallback
            /\ (run.out.kind = "ok" /\ Abs(v) * 2 > Cent) => ~run.fallback
            /\ (run.out.kind = "ok" /\ ~run.fallback) =>
                  /\ run.price % Cent = 0
                  /\ Abs(run.price - v) * 2 <= Cent

\* The provider quoted 0.004, which rounds to 0.00, and the fetch returned 602.5.
C22_Witness ==
    /\ run.op = "Fetch"
    /\ variant = "trader"
    /\ run.out.kind = "ok"
    /\ run.out.value = 40
    /\ run.fallback
    /\ run.price = 6025000

=============================================================================
